---- MODULE Spec2Model ----
(***************************************************************************)
(* A model of the recipe knowledge graph: the graph builder of             *)
(* scripts/build_graph.py (normalise_text, annotate_ingredient,            *)
(* infer_diets, populate_graph), the query helpers of app/graph_loader.py  *)
(* (RecipeGraph.search, RecipeGraph.recipe_detail) and the memoised        *)
(* loader load_graph.                                                      *)
(*                                                                         *)
(* Texts are sequences of one-character strings, so that lower-casing,     *)
(* substring tests, the identifier normaliser and the interpolation of a   *)
(* text into a query are computed character by character.  An RDF term is  *)
(* a record [kind, id, n]; a fact is a triple <<subject, predicate, object>>*)
(* and a graph is a set of facts (rdflib's Graph.add is idempotent).       *)
(***************************************************************************)
EXTENDS Integers, Sequences, FiniteSets, TLC

(***************************************************************************)
(* Characters and texts                                                    *)
(***************************************************************************)
Uppercase ==
    <<"A", "B", "C", "D", "E", "F", "G", "H", "I", "J", "K", "L", "M",
      "N", "O", "P", "Q", "R", "S", "T", "U", "V", "W", "X", "Y", "Z">>

Lowercase ==
    <<"a", "b", "c", "d", "e", "f", "g", "h", "i", "j", "k", "l", "m",
      "n", "o", "p", "q", "r", "s", "t", "u", "v", "w", "x", "y", "z">>

Digits ==
    <<"0", "1", "2", "3", "4", "5", "6", "7", "8", "9">>

\* The characters of the model in ascending code-point order.
Ascii ==
    <<" ", "!", "\"", "-">> \o Digits \o <<">">> \o Uppercase \o Lowercase

Range(s) ==
    {s[i] : i \in 1..Len(s)}

CodePoints ==
    [c \in Range(Ascii) |-> CHOOSE i \in 1..Len(Ascii) : Ascii[i] = c]

CodePoint(c) ==
    CodePoints[c]

\* str.lower() on each character: A..Z become a..z, the rest stays.
LowerChars ==
    [c \in Range(Ascii) |->
        IF \E i \in 1..Len(Uppercase) : Uppercase[i] = c
        THEN Lowercase[CHOOSE i \in 1..Len(Uppercase) : Uppercase[i] = c]
        ELSE c]

LowerChar(c) ==
    LowerChars[c]

\* str.lower(), also SPARQL's LCASE.
Lower(s) ==
    [i \in 1..Len(s) |-> LowerChar(s[i])]

\* Python's "needle in hay", also SPARQL's CONTAINS(hay, needle).
Contains(hay, needle) ==
    \E i \in 0..(Len(hay) - Len(needle)) :
        SubSeq(hay, i + 1, i + Len(needle)) = needle

\* str.strip(chars): drop the leading and trailing characters that are in chars.
StripChars(s, chars) ==
    LET keep == {i \in 1..Len(s) : s[i] \notin chars}
    IN  IF keep = {} THEN <<>>
        ELSE LET lo == CHOOSE i \in keep : \A j \in keep : i <= j
                 hi == CHOOSE i \in keep : \A j \in keep : j <= i
             IN  SubSeq(s, lo, hi)

Whitespace ==
    {" "}

Strip(s) ==
    StripChars(s, Whitespace)

\* re.sub(r"[^a-z0-9]+", "-", value): every maximal run of characters that
\* are not a lower-case letter or a digit becomes one hyphen.
RECURSIVE SubNonAlnum(_)
SubNonAlnum(s) ==
    LET alnum == Range(Lowercase) \cup Range(Digits)
    IN  IF s = <<>> THEN <<>>
        ELSE IF Head(s) \in alnum THEN <<Head(s)>> \o SubNonAlnum(Tail(s))
        ELSE IF Len(s) > 1 /\ s[2] \notin alnum THEN SubNonAlnum(Tail(s))
        ELSE <<"-">> \o SubNonAlnum(Tail(s))

\* re.sub(r"-+", "-", value): every run of hyphens becomes one hyphen.
RECURSIVE SubHyphens(_)
SubHyphens(s) ==
    IF s = <<>> THEN <<>>
    ELSE IF Head(s) = "-" /\ Len(s) > 1 /\ s[2] = "-" THEN SubHyphens(Tail(s))
    ELSE <<Head(s)>> \o SubHyphens(Tail(s))

normalise_text(value) ==
    StripChars(SubHyphens(SubNonAlnum(Lower(Strip(value)))), {"-"})

\* Code-point order of two texts (the order of Python str and of rdflib
\* plain literals).
RECURSIVE TextLess(_, _)
TextLess(a, b) ==
    IF b = <<>> THEN FALSE
    ELSE IF a = <<>> THEN TRUE
    ELSE IF Head(a) = Head(b) THEN TextLess(Tail(a), Tail(b))
    ELSE CodePoint(Head(a)) < CodePoint(Head(b))

(***************************************************************************)
(* Keyword lists                                                           *)
(***************************************************************************)
ANIMAL_PRODUCTS ==
    { <<"a", "n", "c", "h", "o", "v", "y">>,
      <<"b", "a", "c", "o", "n">>,
      <<"b", "e", "e", "f">>,
      <<"b", "u", "t", "t", "e", "r">>,
      <<"c", "h", "i", "c", "k", "e", "n">>,
      <<"e", "g", "g">>,
      <<"f", "i", "s", "h">>,
      <<"g", "e", "l", "a", "t", "i", "n">>,
      <<"h", "o", "n", "e", "y">>,
      <<"l", "a", "m", "b">>,
      <<"m", "i", "l", "k">>,
      <<"p", "o", "r", "k">>,
      <<"s", "h", "r", "i", "m", "p">>,
      <<"t", "u", "r", "k", "e", "y">>,
      <<"y", "o", "g", "u", "r", "t">>,
      <<"p", "a", "r", "m", "e", "s", "a", "n">>,
      <<"c", "r", "e", "a", "m">>,
      <<"c", "h", "e", "e", "s", "e">> }

GLUTEN_GRAINS ==
    { <<"w", "h", "e", "a", "t">>,
      <<"b", "a", "r", "l", "e", "y">>,
      <<"r", "y", "e">>,
      <<"s", "p", "e", "l", "t">>,
      <<"f", "a", "r", "r", "o">>,
      <<"s", "e", "m", "o", "l", "i", "n", "a">>,
      <<"f", "l", "o", "u", "r">>,
      <<"s", "p", "a", "g", "h", "e", "t", "t", "i">>,
      <<"p", "a", "s", "t", "a">>,
      <<"b", "r", "e", "a", "d">> }

\* The tuple of "obvious meats" scanned by infer_diets.
MEAT_TOKENS ==
    { <<"c", "h", "i", "c", "k", "e", "n">>,
      <<"b", "e", "e", "f">>,
      <<"p", "o", "r", "k">>,
      <<"l", "a", "m", "b">>,
      <<"f", "i", "s", "h">>,
      <<"s", "h", "r", "i", "m", "p">>,
      <<"t", "u", "r", "k", "e", "y">> }

(***************************************************************************)
(* RDF terms and facts                                                     *)
(***************************************************************************)
\* REC[name] for the fixed names of the ontology (classes and diets), and
\* the other fixed terms (OWL.Class, SCHEMA.HowToStep, ...).
Term(name) ==
    [kind |-> name, id |-> <<>>, n |-> 0]

\* REC[f"{prefix}-{id}"]: the URI of a recipe, an ingredient or a cuisine.
Entity(prefix, id) ==
    [kind |-> prefix, id |-> id, n |-> 0]

\* Literal(text): a plain string literal.
Literal(text) ==
    [kind |-> "string", id |-> text, n |-> 0]

\* Literal(i, datatype=XSD.integer).
IntLiteral(i) ==
    [kind |-> "integer", id |-> <<>>, n |-> i]

\* Literal(x, datatype=XSD.float); the model's ratings are whole numbers.
FloatLiteral(x) ==
    [kind |-> "float", id |-> <<>>, n |-> x]

\* BNode(): the k-th blank node created by the build.
BNode(k) ==
    [kind |-> "bnode", id |-> <<>>, n |-> k]

\* An unbound variable of a solution (Python None in a result row).
Unbound ==
    [kind |-> "unbound", id |-> <<>>, n |-> 0]

\* bool(term) as rdflib defines it: a literal is true iff its Python value
\* is, so "" and 0 are false; a URI or blank node is a non-empty str.
Truthy(term) ==
    CASE term.kind = "unbound" -> FALSE
      [] term.kind = "string"  -> term.id # <<>>
      [] term.kind \in {"integer", "float"} -> term.n # 0
      [] OTHER -> TRUE

Objects(graph, s, p) ==
    {f[3] : f \in {g \in graph : g[1] = s /\ g[2] = p}}

Subjects(graph, p, o) ==
    {f[1] : f \in {g \in graph : g[2] = p /\ g[3] = o}}

DIET_NAMES ==
    { <<"V", "e", "g", "a", "n">>,
      <<"V", "e", "g", "e", "t", "a", "r", "i", "a", "n">>,
      <<"G", "l", "u", "t", "e", "n", "F", "r", "e", "e">> }

\* REC[diet_name] for the three diets.
DietUri(name) ==
    Entity("diet", name)

Vegan ==
    DietUri(<<"V", "e", "g", "a", "n">>)

Vegetarian ==
    DietUri(<<"V", "e", "g", "e", "t", "a", "r", "i", "a", "n">>)

GlutenFree ==
    DietUri(<<"G", "l", "u", "t", "e", "n", "F", "r", "e", "e">>)

add_ontology_schema ==
    { <<Term(c), "rdf:type", Term("owl:Class")>> :
        c \in {"Recipe", "Ingredient", "Cuisine", "DietType",
               "AnimalProduct", "GlutenIngredient"} }
    \cup
    { <<Term(p), "rdf:type", Term("owl:ObjectProperty")>> :
        p \in {"hasIngredient", "hasCuisine", "hasDiet",
               "avoidsIngredientCategory"} }
    \cup
    { <<Term(p), "rdf:type", Term("owl:DatatypeProperty")>> :
        p \in {"hasPrepTime", "hasCookTime", "hasTotalTime", "hasServings",
               "hasRating"} }
    \cup
    { <<DietUri(d), "rdf:type", Term("DietType")>> : d \in DIET_NAMES }
    \cup
    { <<DietUri(d), "rdfs:label", Literal(d)>> : d \in DIET_NAMES }

(***************************************************************************)
(* Records (RecipeRecord) and the graph builder                            *)
(***************************************************************************)
\* Optional[int] / Optional[float] / Optional[str]: None, or a value.
NoNumber ==
    [has |-> FALSE, v |-> 0]

SomeNumber(x) ==
    [has |-> TRUE, v |-> x]

NoText ==
    [has |-> FALSE, v |-> <<>>]

SomeText(t) ==
    [has |-> TRUE, v |-> t]

RecipeRecord(name, total_time, ingredients, directions, cuisine_path, url, rating, prep_time, cook_time, servings) ==
    [name |-> name, prep_time |-> prep_time, cook_time |-> cook_time,
     total_time |-> total_time, servings |-> servings,
     ingredients |-> ingredients, directions |-> directions,
     rating |-> rating, url |-> url, cuisine_path |-> cuisine_path]

IngredientUri(ingredient_label) ==
    Entity("ingredient", normalise_text(ingredient_label))

\* annotate_ingredient: the graph after the call (the URI it returns is
\* IngredientUri).  The label and the category markers are added only when
\* the ingredient is not in the graph yet.
annotate_ingredient(graph, ingredient_label) ==
    LET ingredient_uri == IngredientUri(ingredient_label)
        lowered == Lower(ingredient_label)
    IN  IF <<ingredient_uri, "rdf:type", Term("Ingredient")>> \in graph
        THEN graph
        ELSE graph
             \cup { <<ingredient_uri, "rdf:type", Term("Ingredient")>>,
                    <<ingredient_uri, "rdfs:label", Literal(ingredient_label)>> }
             \cup (IF \E token \in ANIMAL_PRODUCTS : Contains(lowered, token)
                   THEN { <<ingredient_uri, "rdf:type", Term("AnimalProduct")>> }
                   ELSE {})
             \cup (IF \E token \in GLUTEN_GRAINS : Contains(lowered, token)
                   THEN { <<ingredient_uri, "rdf:type", Term("GlutenIngredient")>> }
                   ELSE {})

\* graph.value(uri, RDFS.label): one label of uri, or None.
LabelValue(graph, uri) ==
    IF Objects(graph, uri, "rdfs:label") = {} THEN Unbound
    ELSE CHOOSE l \in Objects(graph, uri, "rdfs:label") : TRUE

HasMeat(graph, ingredient_uris) ==
    \E uri \in ingredient_uris :
        LET label == LabelValue(graph, uri)
        IN  /\ Truthy(label)
            /\ LET lowered == Lower(label.id)
               IN  \E token \in MEAT_TOKENS : Contains(lowered, token)

\* infer_diets with the "no obvious meats" branch left out: a recipe with an
\* animal product is never Vegetarian.
infer_diets_without_meat_scan(graph, recipe_uri, ingredient_uris) ==
    LET has_animal == \E uri \in ingredient_uris :
                          <<uri, "rdf:type", Term("AnimalProduct")>> \in graph
        has_gluten == \E uri \in ingredient_uris :
                          <<uri, "rdf:type", Term("GlutenIngredient")>> \in graph
    IN  graph
        \cup (IF ~has_animal
              THEN { <<recipe_uri, "rec:hasDiet", Vegan>>,
                     <<recipe_uri, "rec:hasDiet", Vegetarian>> }
              ELSE {})
        \cup (IF ~has_gluten
              THEN { <<recipe_uri, "rec:hasDiet", GlutenFree>> }
              ELSE {})
        \cup (IF has_animal
              THEN { <<recipe_uri, "rec:avoidsIngredientCategory", Term("AnimalProduct")>> }
              ELSE {})
        \cup (IF has_gluten
              THEN { <<recipe_uri, "rec:avoidsIngredientCategory", Term("GlutenIngredient")>> }
              ELSE {})

\* infer_diets going by the number of ingredients as well: a recipe with
\* at most one ingredient is GlutenFree whatever the markers.
infer_diets_by_ingredient_count(graph, recipe_uri, ingredient_uris) ==
    infer_diets_without_meat_scan(graph, recipe_uri, ingredient_uris)
    \cup (IF Cardinality(ingredient_uris) <= 1
          THEN { <<recipe_uri, "rec:hasDiet", GlutenFree>> }
          ELSE {})

\* infer_diets: the graph after the call; ingredient_uris are the URIs of
\* the ingredients of the record being processed.
infer_diets(graph, recipe_uri, ingredient_uris) ==
    LET has_animal == \E uri \in ingredient_uris :
                          <<uri, "rdf:type", Term("AnimalProduct")>> \in graph
        has_gluten == \E uri \in ingredient_uris :
                          <<uri, "rdf:type", Term("GlutenIngredient")>> \in graph
    IN  graph
        \cup (IF ~has_animal
              THEN { <<recipe_uri, "rec:hasDiet", Vegan>>,
                     <<recipe_uri, "rec:hasDiet", Vegetarian>> }
              ELSE IF ~HasMeat(graph, ingredient_uris)
                   THEN { <<recipe_uri, "rec:hasDiet", Vegetarian>> }
                   ELSE {})
        \cup (IF ~has_gluten
              THEN { <<recipe_uri, "rec:hasDiet", GlutenFree>> }
              ELSE {})
        \cup (IF has_animal
              THEN { <<recipe_uri, "rec:avoidsIngredientCategory", Term("AnimalProduct")>> }
              ELSE {})
        \cup (IF has_gluten
              THEN { <<recipe_uri, "rec:avoidsIngredientCategory", Term("GlutenIngredient")>> }
              ELSE {})

RecipeUri(name) ==
    Entity("recipe", normalise_text(name))

\* The scalar attributes of a record (populate_graph, the "if record.x"
\* block): an attribute that is None adds no fact.
ScalarFacts(recipe_uri, record) ==
    (IF record.url.has /\ record.url.v # <<>>
     THEN { <<recipe_uri, "schema:url", Literal(record.url.v)>> } ELSE {})
    \cup (IF record.rating.has
          THEN { <<recipe_uri, "rec:hasRating", FloatLiteral(record.rating.v)>> } ELSE {})
    \cup (IF record.prep_time.has
          THEN { <<recipe_uri, "rec:hasPrepTime", IntLiteral(record.prep_time.v)>> } ELSE {})
    \cup (IF record.cook_time.has
          THEN { <<recipe_uri, "rec:hasCookTime", IntLiteral(record.cook_time.v)>> } ELSE {})
    \cup (IF record.total_time.has
          THEN { <<recipe_uri, "rec:hasTotalTime", IntLiteral(record.total_time.v)>> } ELSE {})
    \cup (IF record.servings.has
          THEN { <<recipe_uri, "rec:hasServings", IntLiteral(record.servings.v)>> } ELSE {})

\* The loop over record.ingredients: annotate each ingredient, link it.
RECURSIVE AddIngredients(_, _, _)
AddIngredients(graph, recipe_uri, ingredients) ==
    IF ingredients = <<>> THEN graph
    ELSE AddIngredients(
             annotate_ingredient(graph, Head(ingredients))
                 \cup { <<recipe_uri, "rec:hasIngredient", IngredientUri(Head(ingredients))>> },
             recipe_uri, Tail(ingredients))

\* The loop over enumerate(record.directions, start=1): one fresh blank
\* node per direction, numbered after the first_bnode nodes made before.
StepFacts(recipe_uri, directions, first_bnode) ==
    UNION { { <<BNode(first_bnode + idx), "rdf:type", Term("schema:HowToStep")>>,
              <<BNode(first_bnode + idx), "rdfs:label", Literal(directions[idx])>>,
              <<BNode(first_bnode + idx), "schema:position", IntLiteral(idx)>>,
              <<recipe_uri, "schema:step", BNode(first_bnode + idx)>> } :
            idx \in 1..Len(directions) }

\* str.split(sep) for a one-character separator.
RECURSIVE Split(_, _)
Split(text, sep) ==
    IF \A i \in 1..Len(text) : text[i] # sep THEN <<text>>
    ELSE LET k == CHOOSE i \in 1..Len(text) :
                      text[i] = sep /\ \A j \in 1..(i - 1) : text[j] # sep
         IN  <<SubSeq(text, 1, k - 1)>> \o Split(SubSeq(text, k + 1, Len(text)), sep)

\* [segment.strip() for segment in cuisine_path.split(">") if segment.strip()]
RECURSIVE StrippedNonEmpty(_)
StrippedNonEmpty(segments) ==
    IF segments = <<>> THEN <<>>
    ELSE IF Strip(Head(segments)) = <<>> THEN StrippedNonEmpty(Tail(segments))
    ELSE <<Strip(Head(segments))>> \o StrippedNonEmpty(Tail(segments))

CuisineUri(cuisine) ==
    Entity("cuisine", normalise_text(cuisine))

\* The loop over the cuisines of the path: create-or-reuse each node and
\* link it to its predecessor; idx is the position of the next segment.
RECURSIVE AddCuisines(_, _, _)
AddCuisines(graph, cuisines, idx) ==
    IF idx > Len(cuisines) THEN graph
    ELSE LET cuisine_uri == CuisineUri(cuisines[idx])
             created == IF <<cuisine_uri, "rdf:type", Term("Cuisine")>> \in graph
                        THEN {}
                        ELSE { <<cuisine_uri, "rdf:type", Term("Cuisine")>>,
                               <<cuisine_uri, "rdfs:label", Literal(cuisines[idx])>> }
             parent == IF idx > 1
                       THEN { <<cuisine_uri, "rdfs:subClassOf", CuisineUri(cuisines[idx - 1])>> }
                       ELSE {}
         IN  AddCuisines(graph \cup created \cup parent, cuisines, idx + 1)

CuisineFacts(graph, recipe_uri, record) ==
    IF record.cuisine_path.has /\ record.cuisine_path.v # <<>>
    THEN LET cuisines == StrippedNonEmpty(Split(record.cuisine_path.v, ">"))
         IN  AddCuisines(graph, cuisines, 1)
             \cup (IF cuisines # <<>>
                   THEN { <<recipe_uri, "rec:hasCuisine", CuisineUri(cuisines[Len(cuisines)])>> }
                   ELSE {})
    ELSE graph

\* The body of the loop of populate_graph after the name test: the facts
\* of one named record, first_bnode blank nodes having been created before.
add_record(graph, record, first_bnode) ==
    LET recipe_uri == RecipeUri(record.name)
        g1 == graph
              \cup { <<recipe_uri, "rdf:type", Term("Recipe")>>,
                     <<recipe_uri, "rdfs:label", Literal(record.name)>> }
              \cup ScalarFacts(recipe_uri, record)
        g2 == AddIngredients(g1, recipe_uri, record.ingredients)
        g3 == infer_diets(g2, recipe_uri,
                          {IngredientUri(record.ingredients[i]) :
                               i \in 1..Len(record.ingredients)})
        g4 == g3 \cup StepFacts(recipe_uri, record.directions, first_bnode)
    IN  CuisineFacts(g4, recipe_uri, record)

\* The loop body without "if not record.name: continue".
populate_record_without_skip(graph, record, first_bnode) ==
    add_record(graph, record, first_bnode)

\* One iteration of the loop of populate_graph: the graph after `record`.
populate_record(graph, record, first_bnode) ==
    IF record.name = <<>> THEN graph
    ELSE add_record(graph, record, first_bnode)

\* The number of blank nodes the iteration creates.
BNodesOf(record) ==
    IF record.name = <<>> THEN 0 ELSE Len(record.directions)

\* populate_graph(graph, records): the graph after the whole batch.
RECURSIVE populate_graph(_, _, _)
populate_graph(graph, batch, first_bnode) ==
    IF batch = <<>> THEN graph
    ELSE populate_graph(populate_record(graph, Head(batch), first_bnode),
                        Tail(batch), first_bnode + BNodesOf(Head(batch)))

(***************************************************************************)
(* RecipeGraph.search                                                      *)
(***************************************************************************)
\* "if ingredient:" / "if cuisine:" / "if diet:": None and "" add no filter.
Given(filter) ==
    filter.has /\ filter.v # <<>>

\* f'LCASE("{text}")': the text is pasted between double quotes, so a double
\* quote in it ends the string literal early and what follows is no SPARQL.
BreaksStringLiteral(text) ==
    "\"" \in Range(text)

\* graph.query(query) raises a parse error for a query that is no SPARQL.
SearchQueryMalformed(ingredient, cuisine, diet) ==
    \/ Given(ingredient) /\ BreaksStringLiteral(ingredient.v)
    \/ Given(cuisine) /\ BreaksStringLiteral(cuisine.v)
    \/ Given(diet) /\ BreaksStringLiteral(diet.v)

\* The matches of one pattern in the order the store yields them, which
\* nothing in the code fixes: the terms of `leading` come first.
RECURSIVE Enumerate(_, _)
Enumerate(matches, leading) ==
    IF matches = {} THEN <<>>
    ELSE LET x == IF matches \cap leading # {}
                  THEN CHOOSE y \in matches \cap leading : TRUE
                  ELSE CHOOSE y \in matches : TRUE
         IN  <<x>> \o Enumerate(matches \ {x}, leading)

\* OPTIONAL { ... }: the matches, or one solution that leaves the variable
\* unbound.
OptionalMatches(matches, leading) ==
    IF matches = {} THEN <<Unbound>> ELSE Enumerate(matches, leading)

\* The labels of the objects of predicate p of the recipe:
\* "?recipe p ?x . ?x rdfs:label ?xLabel".
LabelsVia(g, recipe, p) ==
    UNION { Objects(g, x, "rdfs:label") : x \in Objects(g, recipe, p) }

\* Nested loops over the sequences of `levels`, the last level being the
\* innermost loop: the number of iterations of the loops inside level i.
Strides(levels) ==
    LET RECURSIVE Times(_)
        Times(j) == IF j > Len(levels) THEN 1 ELSE Len(levels[j]) * Times(j + 1)
    IN  [i \in 1..Len(levels) |-> Times(i + 1)]

\* The number of iterations of the nested loops.
LoopCount(levels, strides) ==
    Len(levels[1]) * strides[1]

\* The element of level i that the k-th iteration of the nested loops holds.
LoopItem(levels, strides, k, i) ==
    levels[i][(((k - 1) \div strides[i]) % Len(levels[i])) + 1]

\* The solutions of the WHERE block for one recipe, before the filters that
\* the arguments add, projected on the variables of the SELECT clause: the
\* join of the label pattern with the five OPTIONAL patterns.
RecipeRows(g, recipe, leading) ==
    LET levels == << Enumerate(Objects(g, recipe, "rdfs:label"), leading),
                     OptionalMatches(Objects(g, recipe, "schema:url"), leading),
                     OptionalMatches(Objects(g, recipe, "rec:hasRating"), leading),
                     OptionalMatches(Objects(g, recipe, "rec:hasTotalTime"), leading),
                     OptionalMatches(LabelsVia(g, recipe, "rec:hasCuisine"), leading),
                     OptionalMatches(LabelsVia(g, recipe, "rec:hasDiet"), leading) >>
        strides == Strides(levels)
    IN  [k \in 1..LoopCount(levels, strides) |->
            [recipe |-> recipe,
             label |-> LoopItem(levels, strides, k, 1),
             url |-> LoopItem(levels, strides, k, 2),
             rating |-> LoopItem(levels, strides, k, 3),
             totalTime |-> LoopItem(levels, strides, k, 4),
             cuisineLabel |-> LoopItem(levels, strides, k, 5),
             dietLabel |-> LoopItem(levels, strides, k, 6)]]

\* "?recipe rec:hasIngredient ?ingredient . ?ingredient rdfs:label
\* ?ingredientLabel" with FILTER(CONTAINS(LCASE(?ingredientLabel), LCASE(text))).
IngredientFilterHolds(g, recipe, text) ==
    \E l \in LabelsVia(g, recipe, "rec:hasIngredient") :
        Contains(Lower(l.id), Lower(text))

\* "?recipe p ?filterUri . ?filterUri rdfs:label ?labelFilter" with
\* FILTER(LCASE(?labelFilter) = LCASE(text)), for hasCuisine and hasDiet.
LabelFilterHolds(g, recipe, p, text) ==
    \E l \in LabelsVia(g, recipe, p) : Lower(l.id) = Lower(text)

\* FILTER(xsd:integer(?totalTime) <= bound): an unbound ?totalTime makes the
\* filter an error, which removes the solution.
TimeFilterHolds(row, bound) ==
    row.totalTime.kind = "integer" /\ row.totalTime.n <= bound

\* The solutions of the query before ORDER BY, recipe after recipe.  The
\* patterns that the ingredient, cuisine and diet arguments add bind
\* variables the SELECT clause drops: they decide whether the recipe has
\* rows, and the model leaves out the copies of a row they make.
RECURSIVE SearchRows(_, _, _, _, _, _, _)
SearchRows(g, recipes, ingredient, cuisine, diet, max_total_time, leading) ==
    IF recipes = {} THEN <<>>
    ELSE LET recipe == CHOOSE r \in recipes : TRUE
             matches == /\ Given(ingredient) => IngredientFilterHolds(g, recipe, ingredient.v)
                        /\ Given(cuisine) => LabelFilterHolds(g, recipe, "rec:hasCuisine", cuisine.v)
                        /\ Given(diet) => LabelFilterHolds(g, recipe, "rec:hasDiet", diet.v)
             InTime(row) == max_total_time.has => TimeFilterHolds(row, max_total_time.v)
         IN  (IF matches THEN SelectSeq(RecipeRows(g, recipe, leading), InTime) ELSE <<>>)
             \o SearchRows(g, recipes \ {recipe}, ingredient, cuisine, diet,
                           max_total_time, leading)

\* The sort key of "ORDER BY ?label", without LCASE.
OrderKey_case_sensitive(row) ==
    row.label.id

\* ORDER BY LCASE(?label): the sort key of a row.
OrderKey(row) ==
    Lower(row.label.id)

\* ORDER BY: the rows in ascending order of their keys, rows with equal keys
\* staying in the order they have (Python's sorted is stable).
RECURSIVE OrderByKeys(_, _)
OrderByKeys(rows, keys) ==
    IF keys = {} THEN <<>>
    ELSE LET least == CHOOSE k \in keys : \A other \in keys \ {k} : TextLess(k, other)
             HasLeast(row) == OrderKey(row) = least
         IN  SelectSeq(rows, HasLeast) \o OrderByKeys(rows, keys \ {least})

OrderBy(rows) ==
    OrderByKeys(rows, { OrderKey(rows[i]) : i \in 1..Len(rows) })

IndexOf(recipe_data, recipe_uri) ==
    { i \in 1..Len(recipe_data) : recipe_data[i].uri = recipe_uri }

\* str(row["url"]) if row["url"] else None
TextOrNone(term) ==
    IF Truthy(term) THEN SomeText(term.id) ELSE NoText

\* row["rating"].toPython() if row["rating"] else None, and the same
\* expression for totalTime.
NumberOrNone(term) ==
    IF Truthy(term) THEN SomeNumber(term.n) ELSE NoNumber

\* The body of "for row in rows": recipe_data is the dict as the sequence of
\* its values in insertion order.
GroupRow(recipe_data, row) ==
    LET entered == IF IndexOf(recipe_data, row.recipe) = {}
                   THEN Append(recipe_data,
                               [uri |-> row.recipe, label |-> row.label.id,
                                url |-> TextOrNone(row.url),
                                rating |-> NumberOrNone(row.rating),
                                total_time |-> NumberOrNone(row.totalTime),
                                cuisines |-> {}, diets |-> {}])
                   ELSE recipe_data
        i == CHOOSE i \in IndexOf(entered, row.recipe) : TRUE
    IN  [entered EXCEPT
           ![i].cuisines = IF Truthy(row.cuisineLabel)
                           THEN @ \cup {row.cuisineLabel.id} ELSE @,
           ![i].diets = IF Truthy(row.dietLabel)
                        THEN @ \cup {row.dietLabel.id} ELSE @]

\* "for row in rows: ..." over rows[lo..hi], the first half of the rows
\* being done (the dict then has an entry) before the second half starts;
\* then one RecipeSummary per entry of recipe_data, in insertion order.  The
\* cuisines and diets of a summary are list(set): the model keeps them as sets.
RECURSIVE GroupRows(_, _, _, _)
GroupRows(recipe_data, rows, lo, hi) ==
    IF lo > hi THEN recipe_data
    ELSE IF lo = hi THEN GroupRow(recipe_data, rows[lo])
    ELSE LET mid == (lo + hi) \div 2
             done == GroupRows(recipe_data, rows, lo, mid)
         IN  IF Len(done) > 0 THEN GroupRows(done, rows, mid + 1, hi) ELSE done

\* RecipeGraph.search when the query is SPARQL: the summaries it returns.
Summaries(g, ingredient, cuisine, diet, max_total_time, leading) ==
    LET rows == OrderBy(SearchRows(g, Subjects(g, "rdf:type", Term("Recipe")),
                                   ingredient, cuisine, diet, max_total_time, leading))
    IN  GroupRows(<<>>, rows, 1, Len(rows))

(***************************************************************************)
(* RecipeGraph.recipe_detail                                               *)
(***************************************************************************)
\* An identifier given by a caller that is not a URI of the graph's
\* namespace: the text itself.
TextIdentifier(text) ==
    [kind |-> "text", id |-> text, n |-> 0]

\* f"BIND(<{recipe_uri}> AS ?recipe)": between < and > SPARQL accepts no
\* space, double quote, < or >, so such an identifier makes the query no
\* SPARQL.  The URIs of the namespace hold letters, digits and hyphens only.
DetailQueryMalformed(recipe_uri) ==
    /\ recipe_uri.kind = "text"
    /\ Range(recipe_uri.id) \cap {" ", "\"", ">"} # {}

\* The rows of the detail query, projected on the variables of its SELECT:
\* the join of the label pattern with the seven OPTIONAL patterns.
DetailRows(g, recipe, leading) ==
    LET labels == Enumerate(Objects(g, recipe, "rdfs:label"), leading)
        levels == << labels,
                     OptionalMatches(Objects(g, recipe, "schema:url"), leading),
                     OptionalMatches(Objects(g, recipe, "rec:hasRating"), leading),
                     OptionalMatches(Objects(g, recipe, "rec:hasTotalTime"), leading),
                     OptionalMatches(LabelsVia(g, recipe, "rec:hasIngredient"), leading),
                     OptionalMatches(LabelsVia(g, recipe, "schema:step"), leading),
                     OptionalMatches(LabelsVia(g, recipe, "rec:hasDiet"), leading),
                     OptionalMatches(LabelsVia(g, recipe, "rec:hasCuisine"), leading) >>
        strides == Strides(levels)
    IN  IF labels = <<>> THEN <<>>
        ELSE [k \in 1..LoopCount(levels, strides) |->
                [label |-> LoopItem(levels, strides, k, 1),
                 url |-> LoopItem(levels, strides, k, 2),
                 rating |-> LoopItem(levels, strides, k, 3),
                 totalTime |-> LoopItem(levels, strides, k, 4),
                 ingredientLabel |-> LoopItem(levels, strides, k, 5),
                 direction |-> LoopItem(levels, strides, k, 6),
                 dietLabel |-> LoopItem(levels, strides, k, 7),
                 cuisineLabel |-> LoopItem(levels, strides, k, 8)]]

\* if row[x]: value = str(row[x]); if value not in list: list.append(value)
AppendNew(list, term) ==
    IF Truthy(term) /\ term.id \notin Range(list)
    THEN Append(list, term.id)
    ELSE list

\* The body of "for row in rows" of recipe_detail.
DetailRow(detail, row) ==
    [detail EXCEPT
       !.ingredients = AppendNew(@, row.ingredientLabel),
       !.directions = AppendNew(@, row.direction),
       !.diets = AppendNew(@, row.dietLabel),
       !.cuisines = AppendNew(@, row.cuisineLabel)]

\* "for row in rows: ..." over rows[lo..hi], the first half of the rows being
\* done (the loop leaves the uri alone) before the second half starts.
RECURSIVE DetailLoop(_, _, _, _)
DetailLoop(detail, rows, lo, hi) ==
    IF lo > hi THEN detail
    ELSE IF lo = hi THEN DetailRow(detail, rows[lo])
    ELSE LET mid == (lo + hi) \div 2
             done == DetailLoop(detail, rows, lo, mid)
         IN  IF done.uri = detail.uri THEN DetailLoop(done, rows, mid + 1, hi) ELSE done

\* recipe_detail for a query that returned rows: first = rows[0] gives the
\* scalar fields, the loop fills the four lists.
BuildDetail(recipe_uri, rows) ==
    LET first == rows[1]
    IN  DetailLoop([uri |-> recipe_uri, label |-> first.label.id,
                    url |-> TextOrNone(first.url),
                    rating |-> NumberOrNone(first.rating),
                    total_time |-> NumberOrNone(first.totalTime),
                    cuisines |-> <<>>, diets |-> <<>>,
                    ingredients |-> <<>>, directions |-> <<>>],
                   rows, 1, Len(rows))

\* The sets of terms whose place among the matches of their pattern can
\* change a scalar field of a result: the urls, the ratings and the total
\* times of a subject that has several, and its labels that share a sort key.
OrderSensitive(g, subjects) ==
    { Objects(g, x, p) : x \in subjects,
                         p \in {"schema:url", "rec:hasRating", "rec:hasTotalTime"} }
    \cup { { m \in Objects(g, x, "rdfs:label") : Lower(m.id) = Lower(l.id) } :
             x \in subjects, l \in UNION { Objects(g, y, "rdfs:label") : y \in subjects } }

\* The orders in which the store can yield the matches, as far as a result
\* depends on them: one term to come first for each of these sets.
StoreOrders(g, subjects) ==
    LET groups == { group \in OrderSensitive(g, subjects) : Cardinality(group) > 1 }
    IN  { leading \in SUBSET UNION groups :
            \A group \in groups : Cardinality(leading \cap group) = 1 }

RecipesOf(g) ==
    Subjects(g, "rdf:type", Term("Recipe"))

IngredientsOf(g, recipe) ==
    Objects(g, recipe, "rec:hasIngredient")

DietsOf(g, recipe) ==
    Objects(g, recipe, "rec:hasDiet")

Marked(g, ingredient, category) ==
    <<ingredient, "rdf:type", Term(category)>> \in g

(***************************************************************************)
(* Inputs of the model                                                     *)
(***************************************************************************)
\* Record names: the empty name, a name without alphanumerics, two names
\* that normalise to the same identifier "a-b", and a name that sorts
\* between these two.
Names ==
    { <<>>, <<"!">>, <<"a", " ", "b">>, <<"A", "-", "b">>, <<"a", " ", "c">> }

Egg ==
    <<"E", "g", "g">>

Beef ==
    <<"B", "e", "e", "f">>

Rye ==
    <<"R", "y", "e">>

Milk ==
    <<"M", "i", "l", "k">>

IngredientLists ==
    { <<>>, <<Egg>>, <<Beef>>, <<Rye>>, <<Egg, Rye>>, <<Rye, Beef>>, <<Milk>> }

Mix ==
    <<"M", "i", "x">>

Fry ==
    <<"F", "r", "y">>

AsianThai ==
    <<"A", "s", "i", "a", "n", ">", " ", "T", "h", "a", "i">>

Asian ==
    <<"A", "s", "i", "a", "n">>

\* A cuisine whose label holds a double quote.
QuotedCuisine ==
    <<"Q", "\"">>

SomeUrl ==
    <<"u">>

\* A record with a name and ingredients only.
PlainRecord(name, ingredients) ==
    RecipeRecord(name, NoNumber, ingredients, <<>>, NoText, NoText,
                 NoNumber, NoNumber, NoNumber, NoNumber)

\* Records that carry every kind of field: one with every field present and
\* zero for its numbers, one without url and servings, and one without any
\* number, with a cuisine path that holds a double quote.
ZeroRecord(name) ==
    RecipeRecord(name, SomeNumber(0), <<Egg, Rye>>, <<Mix, Fry>>,
                 SomeText(AsianThai), SomeText(SomeUrl), SomeNumber(0),
                 SomeNumber(0), SomeNumber(0), SomeNumber(2))

TimedRecord(name) ==
    RecipeRecord(name, SomeNumber(5), <<Beef>>, <<Mix, Mix>>,
                 SomeText(Asian), NoText, SomeNumber(4),
                 SomeNumber(2), SomeNumber(3), NoNumber)

QuotedRecord(name) ==
    RecipeRecord(name, NoNumber, <<Rye>>, <<>>,
                 SomeText(QuotedCuisine), NoText, NoNumber,
                 NoNumber, NoNumber, NoNumber)

FullRecords(names) ==
    { ZeroRecord(name) : name \in names }
    \cup { TimedRecord(name) : name \in names }
    \cup { QuotedRecord(name) : name \in names }

QueryNames ==
    { <<"a", " ", "b">>, <<"A", "-", "b">>, <<"a", " ", "c">> }

\* The records of the batches given to the builder.
Records ==
    { PlainRecord(name, ingredients) :
          name \in Names, ingredients \in IngredientLists }
    \cup FullRecords(QueryNames)

\* The batches have at most MaxRecords records.
MaxRecords ==
    2

(***************************************************************************)
(* State                                                                   *)
(***************************************************************************)
VARIABLES
    graph,        \* the facts of the rdflib Graph
    records,      \* populate_graph: the records iterated over so far
    bnodes,       \* the number of blank nodes created so far
    phase,        \* "build" while populate_graph runs, then "serve"
    request,      \* the query call in progress, or NoRequest
    result,       \* what that call returned or raised
    cache,        \* lru_cache of load_graph: its entries, oldest first
    objects,      \* the RecipeGraph objects constructed so far
    threads,      \* where each thread is in its call of load_graph
    returned,     \* what the calls of load_graph returned so far
    log           \* what happened so far: calls made, overlap, eviction

vars ==
    <<graph, records, bnodes, phase, request, result,
      cache, objects, threads, returned, log>>

\* The state of the builder and of the queries.
graphvars ==
    <<graph, records, bnodes, phase, request, result>>

\* The state of load_graph.
loadvars ==
    <<cache, objects, threads, returned, log>>

NoDetail ==
    [uri |-> Unbound]

Request(op, ingredient, cuisine, diet, max_total_time, recipe_uri) ==
    [op |-> op, ingredient |-> ingredient, cuisine |-> cuisine, diet |-> diet,
     max_total_time |-> max_total_time, recipe_uri |-> recipe_uri]

NoRequest ==
    Request("none", NoText, NoText, NoText, NoNumber, Unbound)

\* What a call did: it raised, or it returned summaries (search) or a
\* detail or None (recipe_detail).
Outcome(status, summaries, detail) ==
    [status |-> status, summaries |-> summaries, detail |-> detail,
     labels |-> <<>>]

\* What list_cuisines and list_diets return: a list of labels.
ListOutcome(labels) ==
    [Outcome("returned", <<>>, NoDetail) EXCEPT !.labels = labels]

NoResult ==
    Outcome("none", <<>>, NoDetail)

\* The threads that call load_graph.
MaxThreads ==
    2

Threads ==
    1..MaxThreads

\* The calls of load_graph a behaviour makes at most.
MaxCalls ==
    3

\* The source paths given to load_graph: files that exist.
Paths ==
    {"a.ttl", "b.ttl"}

\* lru_cache(maxsize=1)
maxsize ==
    1

\* A thread outside load_graph.
Idle ==
    [pc |-> "idle", ttl_path |-> "", made |-> 0]

\* build_graph: a fresh Graph with the ontology schema, about to be populated;
\* the process has loaded no store yet.
Init ==
    /\ graph = add_ontology_schema
    /\ records = <<>>
    /\ bnodes = 0
    /\ phase = "build"
    /\ request = NoRequest
    /\ result = NoResult
    /\ cache = <<>>
    /\ objects = <<>>
    /\ threads = [t \in Threads |-> Idle]
    /\ returned = {}
    /\ log = [calls |-> 0, overlapped |-> FALSE, evicted |-> FALSE]

\* populate_graph: one iteration of "for record in records", the record
\* being any record of the set `batch`, which gives at most `most` records.
Populate(batch, most) ==
    /\ phase = "build"
    /\ Len(records) < most
    /\ \E record \in batch :
           /\ records' = Append(records, record)
           /\ graph' = populate_record(graph, record, bnodes)
           /\ bnodes' = bnodes + BNodesOf(record)
    /\ UNCHANGED <<phase, request, result>>
    /\ UNCHANGED loadvars

PopulateBatch ==
    Populate(Records, MaxRecords)

\* build_graph returns: the batch is exhausted and the graph is complete.
BuildDone ==
    /\ phase = "build"
    /\ phase' = "serve"
    /\ records' = <<>>
    /\ UNCHANGED <<graph, bnodes, request, result>>
    /\ UNCHANGED loadvars

Next ==
    \/ PopulateBatch
    \/ BuildDone

Spec ==
    Init /\ [][Next]_vars

(***************************************************************************)
(* Queries on the built graph                                              *)
(***************************************************************************)
\* The records of the graphs that are queried: two names that give one
\* recipe URI, and a third name.
QueryRecords ==
    { ZeroRecord(<<"a", " ", "b">>), QuotedRecord(<<"a", " ", "b">>),
      TimedRecord(<<"A", "-", "b">>) }
    \cup FullRecords({ <<"a", " ", "c">> })

\* The graphs that are queried come from at most MaxQueryRecords records.
MaxQueryRecords ==
    3

PopulateQueryBatch ==
    Populate(QueryRecords, MaxQueryRecords)

IngredientFilters ==
    { NoText, SomeText(<<>>), SomeText(<<"E", "G">>), SomeText(<<"\"">>) }

CuisineFilters ==
    { NoText, SomeText(<<"t", "h", "a", "i">>), SomeText(QuotedCuisine) }

DietFilters ==
    { NoText, SomeText(<<"v", "e", "g", "e", "t", "a", "r", "i", "a", "n">>) }

TimeBounds ==
    { NoNumber, SomeNumber(0), SomeNumber(5) }

\* A query that adds a fact to the graph it reads.
StoreAfterQuery_with_a_fact_more(g) ==
    g \cup { <<Term("Recipe"), "rdfs:label", Literal(<<"q">>)>> }

\* self.graph.query(query): the facts of the graph after the evaluation of
\* a SELECT query, be it evaluated or rejected.  The query forms have no
\* means to add or remove a fact (rdflib keeps those for Graph.update).
StoreAfterQuery(g) ==
    g

\* The labels of the entities of a class, each once, for the queries of
\* list_cuisines and list_diets: SELECT DISTINCT ?label.
LabelsOfClass(g, class) ==
    UNION { Objects(g, x, "rdfs:label") : x \in Subjects(g, "rdf:type", Term(class)) }

\* The orders in which the store can yield these labels, as far as the list
\* depends on them: one label to come first among those with one sort key.
LabelOrders(labels) ==
    LET groups == { group \in { { m \in labels : Lower(m.id) = Lower(l.id) } : l \in labels } :
                      Cardinality(group) > 1 }
    IN  { leading \in SUBSET UNION groups :
            \A group \in groups : Cardinality(leading \cap group) = 1 }

\* ORDER BY LCASE(?label) and "[row["label"] for row in self._execute(query)]":
\* the labels as Python values, in the order of the rows.
ListLabels(g, class, leading) ==
    LET found == Enumerate(LabelsOfClass(g, class), leading)
        rows == OrderBy([k \in 1..Len(found) |-> [label |-> found[k]]])
    IN  [k \in 1..Len(rows) |-> rows[k].label.id]

\* RecipeGraph.list_cuisines() and RecipeGraph.list_diets().
List(op, class) ==
    /\ phase = "serve"
    /\ request = NoRequest
    /\ request' = Request(op, NoText, NoText, NoText, NoNumber, Unbound)
    /\ \E leading \in LabelOrders(LabelsOfClass(graph, class)) :
           result' = ListOutcome(ListLabels(graph, class, leading))
    /\ graph' = StoreAfterQuery(graph)
    /\ UNCHANGED <<records, bnodes, phase>>
    /\ UNCHANGED loadvars

ListCuisines ==
    List("list_cuisines", "Cuisine")

ListDiets ==
    List("list_diets", "DietType")

\* RecipeGraph.search(ingredient, cuisine, diet, max_total_time).
Search ==
    /\ phase = "serve"
    /\ request = NoRequest
    /\ \E ingredient \in IngredientFilters, cuisine \in CuisineFilters,
          diet \in DietFilters, max_total_time \in TimeBounds :
           /\ request' = Request("search", ingredient, cuisine, diet, max_total_time, Unbound)
           /\ IF SearchQueryMalformed(ingredient, cuisine, diet)
              THEN result' = Outcome("raised", <<>>, NoDetail)
              ELSE \E leading \in StoreOrders(graph, RecipesOf(graph)) :
                       result' = Outcome("returned",
                                         Summaries(graph, ingredient, cuisine, diet,
                                                   max_total_time, leading),
                                         NoDetail)
    /\ graph' = StoreAfterQuery(graph)
    /\ UNCHANGED <<records, bnodes, phase>>
    /\ UNCHANGED loadvars

\* The identifiers a caller asks the detail of: the recipes of the graph, a
\* recipe URI and a text that are in no fact, a diet, a class, and a text
\* with a space in it.
Identifiers ==
    RecipesOf(graph)
    \cup { Entity("recipe", <<"z">>), Vegan, Term("Recipe"),
           TextIdentifier(<<"z">>), TextIdentifier(<<"a", " ", "b">>) }

\* RecipeGraph.recipe_detail(recipe_uri).
RecipeDetail ==
    /\ phase = "serve"
    /\ request = NoRequest
    /\ \E recipe_uri \in Identifiers :
           /\ request' = Request("recipe_detail", NoText, NoText, NoText, NoNumber, recipe_uri)
           /\ IF DetailQueryMalformed(recipe_uri)
              THEN result' = Outcome("raised", <<>>, NoDetail)
              ELSE \E leading \in StoreOrders(graph, {recipe_uri}) :
                       LET rows == DetailRows(graph, recipe_uri, leading)
                       IN  IF rows = <<>>
                           THEN result' = Outcome("returned", <<>>, NoDetail)
                           ELSE result' = Outcome("returned", <<>>,
                                                  BuildDetail(recipe_uri, rows))
    /\ graph' = StoreAfterQuery(graph)
    /\ UNCHANGED <<records, bnodes, phase>>
    /\ UNCHANGED loadvars

\* The call is over and its caller has the outcome.
Return ==
    /\ request # NoRequest
    /\ request' = NoRequest
    /\ result' = NoResult
    /\ UNCHANGED <<graph, records, bnodes, phase>>
    /\ UNCHANGED loadvars

NextQuery ==
    \/ PopulateQueryBatch
    \/ BuildDone
    \/ ListCuisines
    \/ ListDiets
    \/ Search
    \/ RecipeDetail
    \/ Return

SpecQuery ==
    Init /\ [][NextQuery]_vars

(***************************************************************************)
(* Properties of the built graph                                           *)
(***************************************************************************)
\* C1: once the build is over, no recipe that is linked by hasIngredient to
\* an ingredient marked AnimalProduct carries the diet Vegan.
C1_NoVeganWithAnimalProduct ==
    phase = "serve" =>
        \A recipe \in RecipesOf(graph) :
            (\E i \in IngredientsOf(graph, recipe) : Marked(graph, i, "AnimalProduct"))
                => Vegan \notin DietsOf(graph, recipe)

\* The diets the rules give a recipe with these markers and labels.
ExpectedDiets(animal, meat, gluten) ==
    (IF ~animal THEN {Vegan} ELSE {})
    \cup (IF ~animal \/ ~meat THEN {Vegetarian} ELSE {})
    \cup (IF ~gluten THEN {GlutenFree} ELSE {})

\* C2: in a graph built from a single record, the diets of the recipe are
\* exactly: Vegan iff no ingredient is marked AnimalProduct; Vegetarian iff
\* none is marked AnimalProduct or no ingredient label of the record holds a
\* meat token; GlutenFree iff none is marked GlutenIngredient.
C2_SingleRecordDiets ==
    (Len(records) = 1 /\ records[1].name # <<>>) =>
        LET recipe == RecipeUri(records[1].name)
            ings   == IngredientsOf(graph, recipe)
            animal == \E i \in ings : Marked(graph, i, "AnimalProduct")
            gluten == \E i \in ings : Marked(graph, i, "GlutenIngredient")
            meat   == \E k \in 1..Len(records[1].ingredients) :
                          \E token \in MEAT_TOKENS :
                              Contains(Lower(records[1].ingredients[k]), token)
        IN  /\ ings = {IngredientUri(records[1].ingredients[k]) :
                           k \in 1..Len(records[1].ingredients)}
            /\ DietsOf(graph, recipe) = ExpectedDiets(animal, meat, gluten)
            /\ (~animal /\ ~gluten) =>
                   DietsOf(graph, recipe) = {Vegan, Vegetarian, GlutenFree}

\* A single record with an animal product that is no meat, and with gluten:
\* the recipe is Vegetarian and nothing else.
C2_Witness ==
    /\ Len(records) = 1
    /\ records[1].name # <<>>
    /\ records[1].ingredients = <<Egg, Rye>>
    /\ DietsOf(graph, RecipeUri(records[1].name)) = {Vegetarian}

HasName(r) ==
    r.name # <<>>

RECURSIVE CountBNodes(_)
CountBNodes(batch) ==
    IF batch = <<>> THEN 0
    ELSE BNodesOf(Head(batch)) + CountBNodes(Tail(batch))

\* C3: while the batch is processed the graph is the graph of the batch
\* without its empty-name records: such a record adds no fact, creates no
\* blank node, and the records after it are processed as if it were absent.
C3_EmptyNameSkipped ==
    phase = "build" =>
        /\ graph = populate_graph(add_ontology_schema, SelectSeq(records, HasName), 0)
        /\ bnodes = CountBNodes(SelectSeq(records, HasName))

\* An empty-name record that carries ingredients was followed by a named
\* record, and the batch went on.
C3_Witness ==
    /\ phase = "build"
    /\ Len(records) = 2
    /\ records[1].name = <<>>
    /\ records[1].ingredients # <<>>
    /\ records[2].name # <<>>
    /\ RecipesOf(graph) = {RecipeUri(records[2].name)}

(***************************************************************************)
(* Properties of the queries                                               *)
(***************************************************************************)
\* The recipes of the summaries a search returned (none when it raised).
ReturnedRecipes ==
    IF result.status = "returned"
    THEN { result.summaries[i].uri : i \in 1..Len(result.summaries) }
    ELSE {}

LabelTexts(terms) ==
    { l.id : l \in terms }

\* The recipes with at least one ingredient whose label contains the text
\* case-insensitively.
RecipesWithIngredient(text) ==
    { recipe \in RecipesOf(graph) :
        \E l \in LabelTexts(LabelsVia(graph, recipe, "rec:hasIngredient")) :
            Contains(Lower(l), Lower(text)) }

OnlyIngredientFilter ==
    /\ request.op = "search"
    /\ Given(request.ingredient)
    /\ request.cuisine = NoText
    /\ request.diet = NoText
    /\ request.max_total_time = NoNumber

\* C4: a search with only an ingredient filter text returns exactly the
\* recipes that have an ingredient whose label contains the text
\* case-insensitively.
C4_IngredientFilterExact ==
    OnlyIngredientFilter =>
        /\ result.status = "returned"
        /\ ReturnedRecipes = RecipesWithIngredient(request.ingredient.v)

\* The statement of C4 for the filter texts without a double quote.
C4_QuoteFreeFilterExact ==
    (OnlyIngredientFilter /\ ~BreaksStringLiteral(request.ingredient.v)) =>
        /\ result.status = "returned"
        /\ ReturnedRecipes = RecipesWithIngredient(request.ingredient.v)

\* C5: the summaries a search returns are in ascending order of their
\* lower-cased labels, whatever the filters.
C5_SearchOrdered ==
    (request.op = "search" /\ result.status = "returned") =>
        \A i, j \in 1..Len(result.summaries) :
            i < j => ~TextLess(Lower(result.summaries[j].label),
                               Lower(result.summaries[i].label))

\* A search returned two recipes with different lower-cased labels; the
\* first has several cuisines and diets and two labels in the graph, one of
\* which sorts after the label of the second recipe.
C5_Witness ==
    /\ request.op = "search"
    /\ result.status = "returned"
    /\ Len(result.summaries) = 2
    /\ TextLess(Lower(result.summaries[1].label), Lower(result.summaries[2].label))
    /\ \E l \in Objects(graph, result.summaries[1].uri, "rdfs:label") :
           TextLess(Lower(result.summaries[2].label), Lower(l.id))
    /\ Cardinality(result.summaries[1].cuisines) > 1
    /\ Cardinality(result.summaries[1].diets) > 1

CuisineLabels(recipe) ==
    LabelTexts(LabelsVia(graph, recipe, "rec:hasCuisine"))

DietLabels(recipe) ==
    LabelTexts(LabelsVia(graph, recipe, "rec:hasDiet"))

OnlyCuisineFilter ==
    /\ request.op = "search"
    /\ Given(request.cuisine)
    /\ request.ingredient = NoText
    /\ request.diet = NoText
    /\ request.max_total_time = NoNumber

OnlyDietFilter ==
    /\ request.op = "search"
    /\ Given(request.diet)
    /\ request.ingredient = NoText
    /\ request.cuisine = NoText
    /\ request.max_total_time = NoNumber

\* Every summary lists all the cuisine and diet labels of its recipe.
SummariesComplete ==
    \A i \in 1..Len(result.summaries) :
        /\ result.summaries[i].cuisines = CuisineLabels(result.summaries[i].uri)
        /\ result.summaries[i].diets = DietLabels(result.summaries[i].uri)

\* C6: a summary returned by a search with a cuisine or diet filter lists
\* every cuisine and every diet label of its recipe, and a recipe is
\* returned iff one of its cuisine (diet) labels equals the filter value
\* case-insensitively.
C6_FilterAndDisplayIndependent ==
    /\ (request.op = "search" /\ (Given(request.cuisine) \/ Given(request.diet))
            /\ result.status = "returned")
           => SummariesComplete
    /\ OnlyCuisineFilter =>
           \A recipe \in RecipesOf(graph) :
               recipe \in ReturnedRecipes
                   <=> \E l \in CuisineLabels(recipe) : Lower(l) = Lower(request.cuisine.v)
    /\ OnlyDietFilter =>
           \A recipe \in RecipesOf(graph) :
               recipe \in ReturnedRecipes
                   <=> \E l \in DietLabels(recipe) : Lower(l) = Lower(request.diet.v)

\* The statement of C6 for the searches that return.
C6_WhenSearchReturns ==
    result.status = "returned" => C6_FilterAndDisplayIndependent

TotalTimes(recipe) ==
    { t.n : t \in Objects(graph, recipe, "rec:hasTotalTime") }

OnlyTimeBound ==
    /\ request.op = "search"
    /\ request.max_total_time.has
    /\ request.ingredient = NoText
    /\ request.cuisine = NoText
    /\ request.diet = NoText

NoFilter ==
    /\ request.op = "search"
    /\ request.max_total_time = NoNumber
    /\ request.ingredient = NoText
    /\ request.cuisine = NoText
    /\ request.diet = NoText

\* C7: with a bound N on the total time (N = 0 included) every returned
\* summary has a total_time, which is <= N, and its recipe has a total-time
\* attribute; with the bound alone a recipe is returned iff it has a total
\* time <= N; with no filter at all every recipe is returned.
C7_MaxTotalTime ==
    /\ (request.op = "search" /\ request.max_total_time.has /\ result.status = "returned")
           => \A i \in 1..Len(result.summaries) :
                  /\ TotalTimes(result.summaries[i].uri) # {}
                  /\ result.summaries[i].total_time.has
                  /\ result.summaries[i].total_time.v <= request.max_total_time.v
    /\ OnlyTimeBound =>
           /\ result.status = "returned"
           /\ ReturnedRecipes = { recipe \in RecipesOf(graph) :
                                    \E t \in TotalTimes(recipe) :
                                        t <= request.max_total_time.v }
    /\ NoFilter =>
           /\ result.status = "returned"
           /\ ReturnedRecipes = RecipesOf(graph)

\* The statement of C7 without "total_time is present" for a summary.
C7_RecipesWithinBound ==
    /\ (request.op = "search" /\ request.max_total_time.has /\ result.status = "returned")
           => \A i \in 1..Len(result.summaries) :
                  /\ TotalTimes(result.summaries[i].uri) # {}
                  /\ result.summaries[i].total_time.has
                         => result.summaries[i].total_time.v <= request.max_total_time.v
    /\ OnlyTimeBound =>
           /\ result.status = "returned"
           /\ ReturnedRecipes = { recipe \in RecipesOf(graph) :
                                    \E t \in TotalTimes(recipe) :
                                        t <= request.max_total_time.v }
    /\ NoFilter =>
           /\ result.status = "returned"
           /\ ReturnedRecipes = RecipesOf(graph)

NoDuplicates(list) ==
    \A i, j \in 1..Len(list) : list[i] = list[j] => i = j

\* C8: recipe_detail never raises; it returns None for an identifier that
\* is the subject of no fact, and otherwise None or a record whose
\* ingredients, directions, diets and cuisines hold no value twice.
C8_DetailNeverRaises ==
    request.op = "recipe_detail" =>
        /\ result.status = "returned"
        /\ (\A f \in graph : f[1] # request.recipe_uri) => result.detail = NoDetail
        /\ result.detail # NoDetail =>
               /\ NoDuplicates(result.detail.ingredients)
               /\ NoDuplicates(result.detail.directions)
               /\ NoDuplicates(result.detail.diets)
               /\ NoDuplicates(result.detail.cuisines)

\* The statement of C8 for the calls that return.
C8_WhenDetailReturns ==
    (request.op = "recipe_detail" /\ result.status = "returned") =>
        /\ (\A f \in graph : f[1] # request.recipe_uri) => result.detail = NoDetail
        /\ result.detail # NoDetail =>
               /\ NoDuplicates(result.detail.ingredients)
               /\ NoDuplicates(result.detail.directions)
               /\ NoDuplicates(result.detail.diets)
               /\ NoDuplicates(result.detail.cuisines)

(***************************************************************************)
(* load_graph                                                              *)
(***************************************************************************)
\* The cache entries with the key ttl_path.
CacheHits(ttl_path) ==
    { i \in 1..Len(cache) : cache[i].key = ttl_path }

\* A thread is inside load_graph.
Running(t) ==
    threads[t].pc # "idle"

\* load_graph(ttl_path) is called: the wrapper of lru_cache looks the key up.
\* On a hit it returns the cached value, on a miss it goes on to call the
\* function, with no lock held.
load_graph_call(t, ttl_path) ==
    /\ threads[t].pc = "idle"
    /\ log.calls < MaxCalls
    /\ log' = [log EXCEPT !.calls = @ + 1,
                          !.overlapped = @ \/ \E u \in Threads \ {t} : Running(u)]
    /\ IF CacheHits(ttl_path) # {}
       THEN /\ returned' = returned \cup
                   { [ttl_path |-> ttl_path,
                      store |-> cache[CHOOSE i \in CacheHits(ttl_path) : TRUE].value] }
            /\ UNCHANGED threads
       ELSE /\ threads' = [threads EXCEPT ![t] = [pc |-> "init", ttl_path |-> ttl_path,
                                                  made |-> 0]]
            /\ UNCHANGED returned
    /\ UNCHANGED <<cache, objects>>
    /\ UNCHANGED graphvars

\* RecipeGraph.__init__ up to "self.graph = Graph()": the file exists, the
\* new object has an empty graph.
RecipeGraph_init(t) ==
    /\ threads[t].pc = "init"
    /\ threads[t].ttl_path \in Paths
    /\ objects' = Append(objects, [ttl_path |-> threads[t].ttl_path, parsed |-> FALSE])
    /\ threads' = [threads EXCEPT ![t].pc = "parse", ![t].made = Len(objects) + 1]
    /\ UNCHANGED <<cache, returned, log>>
    /\ UNCHANGED graphvars

\* self.graph.parse(ttl_path, format="turtle"): the object is complete.
RecipeGraph_parse(t) ==
    /\ threads[t].pc = "parse"
    /\ objects' = [objects EXCEPT ![threads[t].made].parsed = TRUE]
    /\ threads' = [threads EXCEPT ![t].pc = "store"]
    /\ UNCHANGED <<cache, returned, log>>
    /\ UNCHANGED graphvars

\* The function returned: the wrapper of lru_cache keeps the result unless
\* the key entered the cache meanwhile, dropping the oldest entry of a full
\* cache, and returns the result of its own call.
load_graph_return(t) ==
    /\ threads[t].pc = "store"
    /\ LET entry == [key |-> threads[t].ttl_path, value |-> threads[t].made]
       IN  IF CacheHits(threads[t].ttl_path) # {}
           THEN UNCHANGED <<cache, log>>
           ELSE IF Len(cache) >= maxsize
           THEN /\ cache' = Append(Tail(cache), entry)
                /\ log' = [log EXCEPT !.evicted = TRUE]
           ELSE /\ cache' = Append(cache, entry)
                /\ UNCHANGED log
    /\ returned' = returned \cup
           { [ttl_path |-> threads[t].ttl_path, store |-> threads[t].made] }
    /\ threads' = [threads EXCEPT ![t] = Idle]
    /\ UNCHANGED objects
    /\ UNCHANGED graphvars

Call ==
    \E t \in Threads, ttl_path \in Paths : load_graph_call(t, ttl_path)

Construct ==
    \E t \in Threads : RecipeGraph_init(t)

Parse ==
    \E t \in Threads : RecipeGraph_parse(t)

Finish ==
    \E t \in Threads : load_graph_return(t)

NextLoad ==
    \/ Call
    \/ Construct
    \/ Parse
    \/ Finish

SpecLoad ==
    Init /\ [][NextLoad]_vars

(***************************************************************************)
(* Properties of load_graph                                                *)
(***************************************************************************)
\* The number of RecipeGraph objects constructed for the path.
Builds(ttl_path) ==
    Cardinality({ i \in 1..Len(objects) : objects[i].ttl_path = ttl_path })

\* Each path was built at most once, the callers of a path all received the
\* same store, and every store a caller received was parsed.
BuiltOnceAndShared ==
    /\ \A ttl_path \in Paths : Builds(ttl_path) <= 1
    /\ \A r1, r2 \in returned : r1.ttl_path = r2.ttl_path => r1.store = r2.store
    /\ \A r \in returned : objects[r.store].parsed

\* C9: when threads call load_graph concurrently before any store is
\* cached, the store of a path is built exactly once and every caller
\* receives that same, fully built store (as long as the cache has dropped
\* no entry, so that a second build cannot come from an eviction).
C9_ConcurrentLoadBuildsOnce ==
    ~log.evicted => BuiltOnceAndShared

\* C10: over a sequence of calls of load_graph, none starting while another
\* is in progress, the store of each path is constructed exactly once and
\* every later call with the path returns that store.
C10_OncePerPath ==
    ~log.overlapped => BuiltOnceAndShared

(***************************************************************************)
(* The store under the queries                                             *)
(***************************************************************************)
\* C11: once the graph is built, no step changes its facts: list_cuisines,
\* list_diets, search and recipe_detail, with any arguments, in any order
\* and number, leave the fact set as it was before the call.
C11_QueriesLeaveFacts ==
    [][phase = "serve" => graph' = graph]_vars

\* A query operation has run on a built graph with recipes and returned
\* labels, summaries or a detail.
C11_Witness ==
    /\ phase = "serve"
    /\ RecipesOf(graph) # {}
    /\ request.op \in {"list_cuisines", "list_diets", "search", "recipe_detail"}
    /\ result.status = "returned"
    /\ result.labels # <<>> \/ result.summaries # <<>> \/ result.detail # NoDetail

(***************************************************************************)
(* Properties of the cuisines, the names and the steps                     *)
(***************************************************************************)
\* The segments of the cuisine path of a record, outermost first.
CuisineSegments(record) ==
    IF record.cuisine_path.has
    THEN StrippedNonEmpty(Split(record.cuisine_path.v, ">"))
    ELSE <<>>

\* The records read so far that gave the recipe its facts.
RecordsOf(recipe) ==
    { i \in 1..Len(records) :
        records[i].name # <<>> /\ RecipeUri(records[i].name) = recipe }

\* The recipe has at most one hasCuisine fact; its object is the last
\* segment of the cuisine path of one of the recipe's records and not an
\* earlier segment of any of them.
OneLeafCuisine(recipe) ==
    LET paths == { CuisineSegments(records[i]) : i \in RecordsOf(recipe) } \ { <<>> }
        attached == Objects(graph, recipe, "rec:hasCuisine")
    IN  /\ Cardinality(attached) <= 1
        /\ \A cuisine \in attached :
               /\ \E path \in paths : cuisine = CuisineUri(path[Len(path)])
               /\ \A path \in paths : \A i \in 1..(Len(path) - 1) :
                      cuisine # CuisineUri(path[i])

\* C12: after the build of any sequence of records every recipe has at most
\* one hasCuisine fact, whose object is the leaf of a cuisine path of the
\* recipe and no ancestor segment.
C12_OneLeafCuisine ==
    phase = "build" => \A recipe \in RecipesOf(graph) : OneLeafCuisine(recipe)

\* The statement of C12 for the recipes that one record only contributed to.
C12_SingleRecordLeafCuisine ==
    phase = "build" =>
        \A recipe \in RecipesOf(graph) :
            Cardinality(RecordsOf(recipe)) = 1 => OneLeafCuisine(recipe)

\* The name of the record gives a non-empty identifier.
HasIdentifier(r) ==
    normalise_text(r.name) # <<>>

\* C13: a record whose name is not empty but normalises to the empty
\* identifier is skipped: the graph is the graph of the batch without the
\* records whose names give no identifier, and no Recipe entity stands for
\* such a record.
C13_NameWithoutIdentifierSkipped ==
    phase = "build" =>
        /\ graph = populate_graph(add_ontology_schema, SelectSeq(records, HasIdentifier), 0)
        /\ Entity("recipe", <<>>) \notin RecipesOf(graph)

(***************************************************************************)
(* Diet inference as a function                                            *)
(***************************************************************************)
\* A recipe URI that no record of the batches gives.
OtherRecipe ==
    Entity("recipe", <<"0">>)

IngredientUris(record) ==
    { IngredientUri(record.ingredients[k]) : k \in 1..Len(record.ingredients) }

\* The facts of the graph about the ingredients of the record: the facts
\* infer_diets reads when it is given these ingredients.
IngredientFacts(record) ==
    LET uris == IngredientUris(record)
    IN  { fact \in graph : fact[1] \in uris }

\* What infer_diets goes by and what it does when it is run now, on the
\* ingredients of the record, for a recipe that has no fact yet: the
\* category markers the ingredients carry, whether a label of theirs holds
\* a meat token, and the diets attached.
Inference(record) ==
    LET uris == IngredientUris(record)
        facts == IngredientFacts(record)
    IN  [markers |-> { category \in {"AnimalProduct", "GlutenIngredient"} :
                         \E uri \in uris : Marked(facts, uri, category) },
         meat |-> HasMeat(facts, uris),
         attached |-> Objects(infer_diets(facts, OtherRecipe, uris),
                              OtherRecipe, "rec:hasDiet")]

\* The named records read so far.
NamedRecords ==
    { i \in 1..Len(records) : records[i].name # <<>> }

\* Running infer_diets again on the ingredients of the i-th record attaches
\* diets that the record's recipe has, and all of them when the recipe
\* comes from this record alone.
RerunAttachesTheSame(i, attached) ==
    LET recipe == RecipeUri(records[i].name)
        alone == RecordsOf(recipe) = {i}
    IN  \A diet \in {Vegan, Vegetarian, GlutenFree} :
            /\ diet \in attached => <<recipe, "rec:hasDiet", diet>> \in graph
            /\ (alone /\ <<recipe, "rec:hasDiet", diet>> \in graph) => diet \in attached

\* C14: the diets infer_diets attaches are a function of the category
\* markers of the ingredients: two records whose ingredients carry the same
\* markers get the same diets, and a second run attaches the same set.
C14_DietsFunctionOfMarkers ==
    phase = "build" =>
        \A i \in NamedRecords :
            LET first == Inference(records[i])
            IN  /\ RerunAttachesTheSame(i, first.attached)
                /\ \A j \in NamedRecords :
                       j > i =>
                           LET second == Inference(records[j])
                           IN  first.markers = second.markers
                                   => first.attached = second.attached

\* C14 as the code has it: the diets infer_diets attaches are a function of
\* the category markers of the ingredients and of whether a label of theirs
\* holds a meat token.  Two records that agree on both get the same diets,
\* namely those of the three rules, and a second run attaches the same set.
C14_DietsFunctionOfMarkersAndMeat ==
    phase = "build" =>
        \A i \in NamedRecords :
            LET first == Inference(records[i])
            IN  /\ RerunAttachesTheSame(i, first.attached)
                /\ first.attached
                       = ExpectedDiets("AnimalProduct" \in first.markers, first.meat,
                                       "GlutenIngredient" \in first.markers)
                /\ \A j \in NamedRecords :
                       j > i =>
                           LET second == Inference(records[j])
                           IN  (first.markers = second.markers /\ first.meat = second.meat)
                                   => first.attached = second.attached

\* Two recipes with different ingredients that carry the same markers and
\* no meat token: both got the same diets.
C14_Witness ==
    /\ phase = "build"
    /\ Len(records) = 2
    /\ records[1].name # <<>> /\ records[2].name # <<>>
    /\ RecipeUri(records[1].name) # RecipeUri(records[2].name)
    /\ IngredientUris(records[1]) # IngredientUris(records[2])
    /\ Inference(records[1]).markers = {"AnimalProduct"}
    /\ Inference(records[2]).markers = {"AnimalProduct"}
    /\ ~Inference(records[1]).meat /\ ~Inference(records[2]).meat
    /\ DietsOf(graph, RecipeUri(records[1].name)) = {Vegetarian, GlutenFree}
    /\ DietsOf(graph, RecipeUri(records[2].name)) = {Vegetarian, GlutenFree}

(***************************************************************************)
(* Properties of the steps                                                 *)
(***************************************************************************)
StepsOf(recipe) ==
    Objects(graph, recipe, "schema:step")

\* The steps of the recipe stored with the position.
StepsAt(recipe, position) ==
    { step \in StepsOf(recipe) :
        IntLiteral(position) \in Objects(graph, step, "schema:position") }

\* The N steps of the recipe have the positions 1..N, each once, and the
\* step at a position has the direction text that a record of the recipe
\* has at that place; every step is linked from one recipe only.
StepsNumbered(recipe) ==
    LET N == Cardinality(StepsOf(recipe))
    IN  /\ \A step \in StepsOf(recipe) :
               /\ Cardinality(Objects(graph, step, "schema:position")) = 1
               /\ \E position \in 1..N : step \in StepsAt(recipe, position)
               /\ Subjects(graph, "schema:step", step) = {recipe}
        /\ \A position \in 1..N :
               /\ Cardinality(StepsAt(recipe, position)) = 1
               /\ \A step \in StepsAt(recipe, position) :
                      \E i \in RecordsOf(recipe) :
                          /\ position <= Len(records[i].directions)
                          /\ Objects(graph, step, "rdfs:label")
                                 = { Literal(records[i].directions[position]) }

\* C15: after the build of any sequence of records, the N steps of every
\* recipe have exactly the positions 1..N, each used once, in the input
\* order of the direction texts, and every step is linked by step from
\* exactly one recipe.
C15_StepsNumbered ==
    phase = "build" => \A recipe \in RecipesOf(graph) : StepsNumbered(recipe)

\* The statement of C15 for the recipes that one record only contributed to.
C15_SingleRecordStepsNumbered ==
    phase = "build" =>
        \A recipe \in RecipesOf(graph) :
            Cardinality(RecordsOf(recipe)) = 1 => StepsNumbered(recipe)

====
